---------------------------- MODULE Spec2Model ----------------------------
(***************************************************************************)
(* A model of scraper.py, the Greenhouse job link scraper: the discovery   *)
(* loops over the search backend, company extraction from a posting URL,   *)
(* the in-run and cross-run deduplication, and the CSV ledger that is      *)
(* appended by save_links_to_csv and read by load_existing_links.          *)
(*                                                                         *)
(* Text is modelled by TLA+ strings: substring tests, split, lower and     *)
(* strip are computed character by character.  A CSV file is modelled by   *)
(* its sequence of rows, each row the sequence of its field values, and by *)
(* whether its last line ends with a line terminator: what is appended to  *)
(* a file whose last line does not, continues that line.  The csv module's *)
(* quoting is lossless for the field values used here (URLs and plain text *)
(* without comma, quote, carriage return or line feed), so the model keeps *)
(* the field values and models what csv.DictReader does with the rows.     *)
(***************************************************************************)
EXTENDS Naturals, Sequences, FiniteSets, TLC

VARIABLES
    pc,               \* position of the program
    target_roles,     \* main: target_roles
    target_locations, \* main: target_locations
    ri, li, pi,       \* positions of the role, location and pattern loops
    job_links,        \* discover_greenhouse_job_links: job_links
    dispatched,       \* the queries handed to requests.get, in order
    responses,        \* what the backend answered to each of them
    budget,           \* how many more failures and result entries the backend
                      \* delivers, over all the runs
    run,              \* number of the run of main (its wall clock)
    unique_links,     \* main: unique_links
    existing_links,   \* save_links_to_csv: existing_links
    new_links,        \* save_links_to_csv: new_links
    ledger,           \* the file latest_links.csv
    events,           \* the run's accesses to the backend and the ledger
    history,          \* the ledger as it was before the last save
    loaded            \* what load_existing_links returned last

vars == <<pc, target_roles, target_locations, ri, li, pi, job_links,
          dispatched, responses, budget, run, unique_links, existing_links,
          new_links, ledger, events, history, loaded>>

---------------------------------------------------------------------------
(* Bounds of the model.                                                    *)

MaxResults == 2
MaxItems == 2
MaxRuns == 2
MaxBatch == 3
MaxRows == 3

---------------------------------------------------------------------------
(* Python's str operations.                                                *)

\* sub in s
Contains(s, sub) ==
    \E i \in 0..(Len(s) - Len(sub)) : SubSeq(s, i + 1, i + Len(sub)) = sub

\* The characters str.lower() changes, among those a string of the model can
\* hold (code points 1 to 255): A to Z and the capital letters of Latin-1.
UpperLetters == "ABCDEFGHIJKLMNOPQRSTUVWXYZ"
            \o "ÀÁÂÃÄÅÆÇÈÉÊËÌÍÎÏÐÑÒÓÔÕÖØÙÚÛÜÝÞ"
\* Their images, in the same order.
LowerLetters == "abcdefghijklmnopqrstuvwxyz"
            \o "àáâãäåæçèéêëìíîïðñòóôõöøùúûüýþ"

LowerOf ==
    [c \in { SubSeq(UpperLetters, i, i) : i \in 1..Len(UpperLetters) } |->
        LET i == CHOOSE k \in 1..Len(UpperLetters) : SubSeq(UpperLetters, k, k) = c
        IN  SubSeq(LowerLetters, i, i)]

LowerChar(c) == IF c \in DOMAIN LowerOf THEN LowerOf[c] ELSE c

RECURSIVE Lower(_)
\* s.lower()
Lower(s) ==
    IF s = "" THEN ""
    ELSE LowerChar(SubSeq(s, 1, 1)) \o Lower(SubSeq(s, 2, Len(s)))

\* c.isspace(), for the same characters: tab, line feed, vertical tab, form
\* feed, carriage return, the separators U+001C to U+001F, the space, U+0085
\* and the no-break space.
IsSpace(c) ==
    c \in {"\t", "\n", "", "\f", "\r", "",
           "", "", "", " ", "", " "}

RECURSIVE LStrip(_)
LStrip(s) ==
    IF s # "" /\ IsSpace(SubSeq(s, 1, 1)) THEN LStrip(SubSeq(s, 2, Len(s)))
    ELSE s

RECURSIVE RStrip(_)
RStrip(s) ==
    IF s # "" /\ IsSpace(SubSeq(s, Len(s), Len(s)))
    THEN RStrip(SubSeq(s, 1, Len(s) - 1))
    ELSE s

\* s.strip()
Strip(s) == RStrip(LStrip(s))

RECURSIVE SplitFrom(_, _, _)
SplitFrom(s, sep, cur) ==
    IF s = "" THEN <<cur>>
    ELSE IF SubSeq(s, 1, 1) = sep
         THEN <<cur>> \o SplitFrom(SubSeq(s, 2, Len(s)), sep, "")
         ELSE SplitFrom(SubSeq(s, 2, Len(s)), sep, cur \o SubSeq(s, 1, 1))

\* s.split(sep), sep one character
Split(s, sep) == SplitFrom(s, sep, "")

\* Python's None and a str, as one kind of value.
None == [some |-> FALSE, val |-> ""]
Some(s) == [some |-> TRUE, val |-> s]

\* x or default, for x a str or None
OrDefault(x, default) == IF x.some /\ x.val # "" THEN x.val ELSE default


---------------------------------------------------------------------------
(* The search backend: what requests.get may answer to one query.          *)

\* An entry of organic_results: a JSON object whose fields may be absent
\* (None here), or an entry that is not an object.
RawResult(link, title, snippet) ==
    [object |-> TRUE, link |-> link, title |-> title, snippet |-> snippet]
NotAnObject == [object |-> FALSE, link |-> None, title |-> None, snippet |-> None]

\* result.get(key, default)
Get(field, default) == IF field.some THEN field.val ELSE default

LinkAcme == "https://job-boards.greenhouse.io/Acme/jobs/123"
LinkCaps == "https://job-boards.greenhouse.io/Jobs/jobs/7"
LinkRoot == "https://job-boards.greenhouse.io/jobs/9"
LinkNoHost == "https://boards.greenhouse.io/acme/jobs/5"
LinkNoPath == "https://job-boards.greenhouse.io/acme"

\* The entries that are postings of the platform.
ValidRaw ==
    { RawResult(Some(LinkAcme), Some("Data Analyst"), Some("Join Acme")),
      RawResult(Some(LinkAcme), None, None),
      RawResult(Some(LinkCaps), None, None),
      RawResult(Some(LinkRoot), Some("Chef"), None) }

\* The entries the backend answers with under SpecDiscover.
DiscoverRaw ==
    { RawResult(Some(LinkAcme), Some("Data Analyst"), Some("Join Acme")),
      RawResult(Some(LinkCaps), None, None),
      RawResult(Some(LinkRoot), Some("Chef"), None),
      RawResult(Some(LinkNoHost), Some("Data Analyst"), None),
      NotAnObject }

\* The JSON body of a 200 answer, and None for what search_with_serpapi
\* returns when there is none.
NoBody == [type |-> "none", organic_results |-> <<>>]
ErrorBody == [type |-> "error", organic_results |-> <<>>]
ResultsBody(rs) == [type |-> "results", organic_results |-> rs]

SeqsUpTo(S, n) == UNION { [1..k -> S] : k \in 1..n }

\* 200 with an empty organic_results list.
EmptyAnswer == [kind |-> "ok", body |-> ResultsBody(<<>>)]

\* What an answer takes of the budget: one for each entry of organic_results,
\* one for a failure or a body without organic_results.
Cost(resp) ==
    IF resp.kind = "ok" /\ resp.body.type = "results"
    THEN Len(resp.body.organic_results)
    ELSE 1

Failures ==
    { [kind |-> k, body |-> NoBody] :
        k \in {"network_error", "http_error", "malformed_body"} }

\* The answers the backend may give with b left of the budget.
Answers(raw, b) ==
    {EmptyAnswer} \cup
    IF b = 0 THEN {}
    ELSE Failures
         \cup { [kind |-> "ok", body |-> ErrorBody] }
         \cup { [kind |-> "ok", body |-> ResultsBody(rs)] :
                   rs \in SeqsUpTo(raw, IF b < MaxResults THEN b ELSE MaxResults) }

---------------------------------------------------------------------------
(* search_with_serpapi                                                     *)

\* The try block: requests.get raises on a network error, response.json()
\* on a malformed body; a status other than 200 returns None.
SerpApiTry(resp) ==
    [raised |-> resp.kind \in {"network_error", "malformed_body"},
     value  |-> IF resp.kind = "ok" THEN resp.body ELSE NoBody]

\* except Exception: return None
search_with_serpapi(resp) ==
    LET r == SerpApiTry(resp)
    IN  [raised |-> FALSE, value |-> IF r.raised THEN NoBody ELSE r.value]

---------------------------------------------------------------------------
(* extract_company_from_url, determine_role_from_pattern                   *)

StructuralTokens == {"jobs", "www", "", "job-boards"}

RECURSIVE CompanyFromParts(_, _)
\* the for loop over enumerate(parts), from index i (1-based here)
CompanyFromParts(parts, i) ==
    IF i > Len(parts) THEN None
    ELSE IF Contains(parts[i], "greenhouse.io") /\ i + 1 <= Len(parts)
            /\ parts[i + 1] # "" /\ parts[i + 1] \notin StructuralTokens
         THEN Some(Strip(Lower(parts[i + 1])))
         ELSE CompanyFromParts(parts, i + 1)

extract_company_from_url(url) ==
    IF Contains(url, "job-boards.greenhouse.io")
    THEN CompanyFromParts(Split(url, "/"), 1)
    ELSE None

RECURSIVE RoleFromPattern(_, _, _)
RoleFromPattern(pattern, roles, i) ==
    IF i > Len(roles) THEN "unknown"
    ELSE IF Contains(Lower(pattern), Lower(roles[i])) THEN roles[i]
         ELSE RoleFromPattern(pattern, roles, i + 1)

determine_role_from_pattern(pattern, roles) == RoleFromPattern(pattern, roles, 1)

---------------------------------------------------------------------------
(* discover_greenhouse_job_links                                           *)

HostMarker == "job-boards.greenhouse.io"
PathMarker == "/jobs/"

\* A filter that forgets the posting path marker.
PassesHostMarkerOnly(link) == Contains(link, HostMarker)

\* if 'job-boards.greenhouse.io' in link and '/jobs/' in link
PassesMarkers(link) == Contains(link, HostMarker) /\ Contains(link, PathMarker)

\* current_time.strftime('%Y-%m-%d %H:%M:%S'), the clock being the run number
Strftime(n) == "2025-01-0" \o ToString(n) \o " 07:00:00"

JobRecord(link, role, location, found_at, result) ==
    [link |-> link,
     company |-> OrDefault(extract_company_from_url(link), "unknown"),
     role_matched |-> role,
     location_searched |-> location,
     found_at |-> found_at,
     title |-> Get(result.title, "No title"),
     snippet |-> Get(result.snippet, "No description")]

search_patterns ==
    << "site:job-boards.greenhouse.io \"data scientist\" \"remote\" OR \"US\"",
       "site:job-boards.greenhouse.io \"machine learning engineer\" \"remote\" OR \"US\"",
       "site:job-boards.greenhouse.io \"data analyst\" \"remote\" OR \"US\"",
       "site:job-boards.greenhouse.io \"ai engineer\" \"remote\" OR \"US\"" >>

CrossQueryText(role, location) ==
    "site:job-boards.greenhouse.io \"" \o role \o "\" \"" \o location \o "\""

RECURSIVE CrossResults(_, _, _, _, _, _)
\* for result in results['organic_results'], of a role and location query.
\* result.get raises on an entry that is no object; what was appended stays.
CrossResults(rs, i, role, location, found_at, acc) ==
    IF i > Len(rs) THEN [raised |-> FALSE, job_links |-> acc]
    ELSE IF ~rs[i].object THEN [raised |-> TRUE, job_links |-> acc]
    ELSE LET link == Get(rs[i].link, "")
         IN  CrossResults(rs, i + 1, role, location, found_at,
                 IF PassesMarkers(link)
                 THEN Append(acc, JobRecord(link, role, location, found_at, rs[i]))
                 ELSE acc)

RECURSIVE PatternResults(_, _, _, _, _, _)
\* for result in results['organic_results'], of a pattern query
PatternResults(rs, i, pattern, roles, found_at, acc) ==
    IF i > Len(rs) THEN [raised |-> FALSE, job_links |-> acc]
    ELSE IF ~rs[i].object THEN [raised |-> TRUE, job_links |-> acc]
    ELSE LET link == Get(rs[i].link, "")
             role_matched == determine_role_from_pattern(pattern, roles)
         IN  PatternResults(rs, i + 1, pattern, roles, found_at,
                 IF PassesMarkers(link) /\ role_matched # ""
                 THEN Append(acc, JobRecord(link, role_matched, "US/Remote",
                                            found_at, rs[i]))
                 ELSE acc)

\* if results and 'organic_results' in results
HasOrganic(results) == results.type = "results"

\* The try block of one role and location query.
CrossTry(resp, role, location, found_at, acc) ==
    LET r == search_with_serpapi(resp)
    IN  IF r.raised THEN [raised |-> TRUE, job_links |-> acc]
        ELSE IF HasOrganic(r.value)
             THEN CrossResults(r.value.organic_results, 1, role, location,
                               found_at, acc)
             ELSE [raised |-> FALSE, job_links |-> acc]

\* The try block of one pattern query.
PatternTry(resp, pattern, roles, found_at, acc) ==
    LET r == search_with_serpapi(resp)
    IN  IF r.raised THEN [raised |-> TRUE, job_links |-> acc]
        ELSE IF HasOrganic(r.value)
             THEN PatternResults(r.value.organic_results, 1, pattern, roles,
                                 found_at, acc)
             ELSE [raised |-> FALSE, job_links |-> acc]

\* A loop without its try: what a query raises leaves it.
EscapesWhenRaised(outcome) == outcome.raised

\* except Exception as e: ... continue.  Nothing a query raises leaves the loop.
Escapes(outcome) == FALSE

\* The loops nested the other way round: locations outer, roles inner.
AfterCrossLocationsOuter(r, l) ==
    IF r < Len(target_roles) THEN [pc |-> "cross", ri |-> r + 1, li |-> l]
    ELSE IF l < Len(target_locations) THEN [pc |-> "cross", ri |-> 1, li |-> l + 1]
    ELSE [pc |-> "pattern", ri |-> r, li |-> l]

\* The position after the body of the inner loop at (r, l).
AfterCross(r, l) ==
    IF l < Len(target_locations) THEN [pc |-> "cross", ri |-> r, li |-> l + 1]
    ELSE IF r < Len(target_roles) THEN [pc |-> "cross", ri |-> r + 1, li |-> 1]
    ELSE [pc |-> "pattern", ri |-> r, li |-> l]

\* The position on entering the loops: no body runs when a list is empty.
EnterLoops(roles, locations) ==
    IF roles = <<>> \/ locations = <<>> THEN "pattern" ELSE "cross"

Spend(resp) == budget - Cost(resp)

\* One iteration of the inner loop: one role and location query.
CrossQuery(raw) ==
    /\ pc = "cross"
    /\ \E resp \in Answers(raw, budget) :
         LET role == target_roles[ri]
             location == target_locations[li]
             outcome == CrossTry(resp, role, location, Strftime(run), job_links)
             nxt == AfterCross(ri, li)
         IN  /\ dispatched' = Append(dispatched, CrossQueryText(role, location))
             /\ responses' = Append(responses, resp)
             /\ events' = Append(events, "query")
             /\ budget' = Spend(resp)
             /\ job_links' = outcome.job_links
             /\ pc' = IF Escapes(outcome) THEN "crashed" ELSE nxt.pc
             /\ ri' = nxt.ri
             /\ li' = nxt.li
    /\ UNCHANGED <<target_roles, target_locations, pi, run, unique_links,
                   existing_links, new_links, ledger, history, loaded>>

\* One iteration of the pattern loop; after the last, return job_links.
PatternQuery(raw) ==
    /\ pc = "pattern"
    /\ \E resp \in Answers(raw, budget) :
         LET pattern == search_patterns[pi]
             outcome == PatternTry(resp, pattern, target_roles, Strftime(run),
                                   job_links)
         IN  /\ dispatched' = Append(dispatched, pattern)
             /\ responses' = Append(responses, resp)
             /\ events' = Append(events, "query")
             /\ budget' = Spend(resp)
             /\ job_links' = outcome.job_links
             /\ pc' = IF Escapes(outcome) THEN "crashed"
                      ELSE IF pi < Len(search_patterns) THEN "pattern"
                      ELSE "returned"
             /\ pi' = IF pi < Len(search_patterns) THEN pi + 1 ELSE pi
    /\ UNCHANGED <<target_roles, target_locations, ri, li, run, unique_links,
                   existing_links, new_links, ledger, history, loaded>>

---------------------------------------------------------------------------
(* The discovery alone, for every list of roles and of locations.          *)

RoleLists == { <<>>, <<"data analyst">>, <<"Data Analyst", "chef">> }
LocationLists == { <<>>, <<"Boston">>, <<"Boston", "Atlanta">> }

NoFile == [exists |-> FALSE, rows |-> <<>>, terminated |-> TRUE]

InitDiscover ==
    /\ target_roles \in RoleLists
    /\ target_locations \in LocationLists
    /\ pc = EnterLoops(target_roles, target_locations)
    /\ ri = 1 /\ li = 1 /\ pi = 1
    /\ job_links = <<>>
    /\ dispatched = <<>>
    /\ responses = <<>>
    /\ budget = MaxItems
    /\ run = 1
    /\ unique_links = <<>>
    /\ existing_links = {}
    /\ new_links = <<>>
    /\ ledger = NoFile
    /\ events = <<>>
    /\ history = NoFile
    /\ loaded = {}

NextDiscover == CrossQuery(DiscoverRaw) \/ PatternQuery(DiscoverRaw)

SpecDiscover == InitDiscover /\ [][NextDiscover]_vars

---------------------------------------------------------------------------
(* remove_duplicates                                                       *)

RECURSIVE UniqueFrom(_, _, _, _)
\* the for loop over job_links, from index i
UniqueFrom(jobs, i, seen_links, unique_jobs) ==
    IF i > Len(jobs) THEN unique_jobs
    ELSE IF jobs[i].link \notin seen_links
         THEN UniqueFrom(jobs, i + 1, seen_links \cup {jobs[i].link},
                         Append(unique_jobs, jobs[i]))
         ELSE UniqueFrom(jobs, i + 1, seen_links, unique_jobs)

\* A deduplication that keeps the last occurrence of a link, not the first.
RemoveDuplicatesKeepLast(jobs) ==
    LET kept == { i \in 1..Len(jobs) :
                    \A j \in (i + 1)..Len(jobs) : jobs[j].link # jobs[i].link }
        nth(n) == CHOOSE i \in kept : Cardinality({ j \in kept : j <= i }) = n
    IN  [n \in 1..Cardinality(kept) |-> jobs[nth(n)]]

\* A deduplication that puts each new job first: unique_jobs.insert(0, job).
RemoveDuplicatesReversed(jobs) ==
    LET u == UniqueFrom(jobs, 1, {}, <<>>)
    IN  [n \in 1..Len(u) |-> u[Len(u) + 1 - n]]

remove_duplicates(jobs) == UniqueFrom(jobs, 1, {}, <<>>)

---------------------------------------------------------------------------
(* The ledger file, csv.DictReader and load_existing_links                 *)

\* A row the csv reader raises on (a field longer than csv.field_size_limit()).
BadRow == <<"<field larger than field limit>">>

HeaderRow == <<"link", "company", "role_matched", "location_searched",
               "found_at", "title", "snippet">>

\* DictReader's row['link'] for a row under the field names: the dict is
\* dict(zip(fieldnames, row)), later names winning, and the names beyond the
\* row's length are set to None.  Asked only when 'link' is a field name.
LinkOfRow(fieldnames, row) ==
    LET at == { i \in 1..Len(fieldnames) : fieldnames[i] = "link" }
        last == CHOOSE i \in at : \A j \in at : j <= i
    IN  IF last > Len(row) THEN None ELSE Some(row[last])

RECURSIVE ReadRows(_, _, _, _)
\* for row in reader: existing_links.add(row['link']), from row i.  The
\* reader skips empty rows; a csv error or the KeyError of a file without a
\* 'link' column leaves the loop, and the bare except keeps what was added.
ReadRows(rows, fieldnames, i, links) ==
    IF i > Len(rows) THEN links
    ELSE IF rows[i] = BadRow THEN links
    ELSE IF rows[i] = <<>> THEN ReadRows(rows, fieldnames, i + 1, links)
    ELSE IF \A k \in 1..Len(fieldnames) : fieldnames[k] # "link" THEN links
    ELSE ReadRows(rows, fieldnames, i + 1,
                  links \cup {LinkOfRow(fieldnames, rows[i])})

load_existing_links(file) ==
    IF ~file.exists THEN {}
    ELSE IF file.rows = <<>> THEN {}
    ELSE IF file.rows[1] = BadRow THEN {}
    ELSE ReadRows(file.rows, file.rows[1], 2, {})

---------------------------------------------------------------------------
(* save_links_to_csv                                                       *)

\* A save that does not filter.
FilterExistingKeepsAll(jobs, existing) == jobs

\* new_links = [job for job in job_links if job['link'] not in existing_links]
FilterExisting(jobs, existing) ==
    SelectSeq(jobs, LAMBDA job : Some(job.link) \notin existing)

\* writer.writerow([...]) of one job
RowOf(job) ==
    <<job.link, job.company, job.role_matched, job.location_searched,
      job.found_at, job.title, job.snippet>>

RowsOf(jobs) == [i \in 1..Len(jobs) |-> RowOf(jobs[i])]

\* The row the reader finds when the text of row written follows, on the
\* same line, a last line that has no terminator: the first field written
\* continues the last field of that line.  A line the reader raises on stays
\* one.
Glue(last, written) ==
    IF last = BadRow THEN BadRow
    ELSE SubSeq(last, 1, Len(last) - 1)
         \o <<last[Len(last)] \o written[1]>>
         \o SubSeq(written, 2, Len(written))

\* The rows of a file after the text of the rows written is put after its
\* last byte.
AppendRows(file, written) ==
    IF file.rows = <<>> \/ file.terminated \/ written = <<>>
    THEN file.rows \o written
    ELSE SubSeq(file.rows, 1, Len(file.rows) - 1)
         \o <<Glue(file.rows[Len(file.rows)], written[1])>>
         \o SubSeq(written, 2, Len(written))

\* open(filename, 'a' if file_exists else 'w'), the header if the file is new,
\* then one row for each new link; writer.writerow ends every row with the
\* line terminator.
WriteRows(file, jobs) ==
    [exists |-> TRUE,
     rows |-> IF file.exists THEN AppendRows(file, RowsOf(jobs))
              ELSE <<HeaderRow>> \o RowsOf(jobs),
     terminated |-> TRUE]

\* A save that appends what it is given without reading the file.
SaveWithoutReading(jobs, file) ==
    IF jobs = <<>>
    THEN [existing |-> {}, new_links |-> <<>>, file |-> file, io |-> <<>>]
    ELSE [existing |-> {}, new_links |-> jobs, file |-> WriteRows(file, jobs),
          io |-> <<"append">>]

\* The whole function: what it read, what it kept, the file afterwards and
\* its accesses to the file, in order.
save_links_to_csv(jobs, file) ==
    IF jobs = <<>>
    THEN [existing |-> {}, new_links |-> <<>>, file |-> file, io |-> <<>>]
    ELSE LET existing == load_existing_links(file)
             new == FilterExisting(jobs, existing)
         IN  IF new = <<>>
             THEN [existing |-> existing, new_links |-> new, file |-> file,
                   io |-> <<"read">>]
             ELSE [existing |-> existing, new_links |-> new,
                   file |-> WriteRows(file, new), io |-> <<"read", "append">>]

---------------------------------------------------------------------------
(* main, run after run on the same ledger file                             *)

\* The entries the backend answers with under Spec.
PipelineRaw ==
    { RawResult(Some(LinkAcme), Some("Data Analyst"), Some("Join Acme")),
      RawResult(Some(LinkCaps), None, None),
      RawResult(Some(LinkNoHost), Some("Data Analyst"), None),
      RawResult(Some(LinkNoPath), None, None),
      RawResult(None, Some("No link"), None) }

\* main: target_roles and target_locations
MainRoles ==
    <<"data scientist", "data analyst", "machine learning engineer",
      "ai engineer">>
MainLocations == <<"Atlanta", "New York", "San Francisco", "Boston">>

\* main calls discover_greenhouse_job_links: a run begins.
StartRun ==
    /\ pc = "idle"
    /\ run < MaxRuns
    /\ run' = run + 1
    /\ pc' = EnterLoops(target_roles, target_locations)
    /\ ri' = 1 /\ li' = 1 /\ pi' = 1
    /\ job_links' = <<>>
    /\ dispatched' = <<>>
    /\ responses' = <<>>
    /\ unique_links' = <<>>
    /\ existing_links' = {}
    /\ new_links' = <<>>
    /\ events' = <<>>
    /\ UNCHANGED <<target_roles, target_locations, budget, ledger, history,
                   loaded>>

\* unique_links = remove_duplicates(job_links)
RemoveDuplicates ==
    /\ pc = "returned"
    /\ unique_links' = remove_duplicates(job_links)
    /\ pc' = "deduped"
    /\ UNCHANGED <<target_roles, target_locations, ri, li, pi, job_links,
                   dispatched, responses, budget, run, existing_links,
                   new_links, ledger, events, history, loaded>>

\* save_links_to_csv(unique_links), and the run ends
SaveLinks ==
    /\ pc = "deduped"
    /\ LET r == save_links_to_csv(unique_links, ledger)
       IN  /\ existing_links' = r.existing
           /\ new_links' = r.new_links
           /\ ledger' = r.file
           /\ events' = events \o r.io
    /\ history' = ledger
    /\ pc' = "idle"
    /\ UNCHANGED <<target_roles, target_locations, ri, li, pi, job_links,
                   dispatched, responses, budget, run, unique_links, loaded>>

Init ==
    /\ target_roles = MainRoles
    /\ target_locations = MainLocations
    /\ pc = "idle"
    /\ ri = 1 /\ li = 1 /\ pi = 1
    /\ job_links = <<>>
    /\ dispatched = <<>>
    /\ responses = <<>>
    /\ budget = MaxItems
    /\ run = 0
    /\ unique_links = <<>>
    /\ existing_links = {}
    /\ new_links = <<>>
    /\ ledger = NoFile
    /\ events = <<>>
    /\ history = NoFile
    /\ loaded = {}

Next ==
    \/ StartRun
    \/ CrossQuery(PipelineRaw)
    \/ PatternQuery(PipelineRaw)
    \/ RemoveDuplicates
    \/ SaveLinks

Spec == Init /\ [][Next]_vars

---------------------------------------------------------------------------
(* The end of main on every ledger file: remove_duplicates, then           *)
(* save_links_to_csv, then the load_existing_links of the next save.       *)

AcmeJob ==
    [link |-> LinkAcme, company |-> "acme", role_matched |-> "data analyst",
     location_searched |-> "Boston", found_at |-> Strftime(1),
     title |-> "Data Analyst", snippet |-> "Join Acme"]
AcmeJobAgain ==
    [link |-> LinkAcme, company |-> "acme", role_matched |-> "data scientist",
     location_searched |-> "US/Remote", found_at |-> Strftime(1),
     title |-> "No title", snippet |-> "No description"]
CapsJob ==
    [link |-> LinkCaps, company |-> "jobs", role_matched |-> "data analyst",
     location_searched |-> "Boston", found_at |-> Strftime(1),
     title |-> "No title", snippet |-> "No description"]

\* The candidate lists of a run, the empty one among them.
Batches == {<<>>} \cup SeqsUpTo({AcmeJob, AcmeJobAgain, CapsJob}, MaxBatch)

\* A row written by an earlier run, with another time stamp.
OldRow(job) == RowOf([job EXCEPT !.found_at = Strftime(0)])

\* The rows an earlier writer may have left.
PriorRows ==
    SeqsUpTo({HeaderRow, OldRow(AcmeJob), OldRow(CapsJob), BadRow, <<>>}, MaxRows)

\* The files a run may find: none, an empty one, or any rows, with or without
\* a header, the last line with its terminator or, when it is not an empty
\* line, without.
PriorFiles ==
    {NoFile, [exists |-> TRUE, rows |-> <<>>, terminated |-> TRUE]}
    \cup { f \in [exists : {TRUE}, rows : PriorRows, terminated : BOOLEAN] :
             f.terminated \/ f.rows[Len(f.rows)] # <<>> }

\* The next reader of the file: load_existing_links(filename).
Load ==
    /\ pc = "idle"
    /\ loaded' = load_existing_links(ledger)
    /\ pc' = "loaded"
    /\ UNCHANGED <<target_roles, target_locations, ri, li, pi, job_links,
                   dispatched, responses, budget, run, unique_links,
                   existing_links, new_links, ledger, events, history>>

InitLedger ==
    /\ ledger \in PriorFiles
    /\ job_links \in Batches
    /\ pc = "returned"
    /\ target_roles = MainRoles
    /\ target_locations = MainLocations
    /\ ri = 1 /\ li = 1 /\ pi = 1
    /\ dispatched = <<>>
    /\ responses = <<>>
    /\ budget = 0
    /\ run = 1
    /\ unique_links = <<>>
    /\ existing_links = {}
    /\ new_links = <<>>
    /\ events = <<>>
    /\ history = ledger
    /\ loaded = {}

NextLedger == RemoveDuplicates \/ SaveLinks \/ Load

SpecLedger == InitLedger /\ [][NextLedger]_vars

---------------------------------------------------------------------------
(* The deduplication as a function of a candidate list and a set of links. *)

\* remove_duplicates (main), then the filter of save_links_to_csv
Dedupe(jobs, existing) == FilterExisting(remove_duplicates(jobs), existing)

DedupeOnce ==
    /\ pc = "input"
    /\ new_links' = Dedupe(job_links, existing_links)
    /\ pc' = "once"
    /\ UNCHANGED <<target_roles, target_locations, ri, li, pi, job_links,
                   dispatched, responses, budget, run, unique_links,
                   existing_links, ledger, events, history, loaded>>

DedupeTwice ==
    /\ pc = "once"
    /\ unique_links' = Dedupe(new_links, existing_links)
    /\ pc' = "twice"
    /\ UNCHANGED <<target_roles, target_locations, ri, li, pi, job_links,
                   dispatched, responses, budget, run, new_links,
                   existing_links, ledger, events, history, loaded>>

InitDedupe ==
    /\ job_links \in Batches
    /\ existing_links \in SUBSET {Some(LinkAcme), Some(LinkCaps), Some(LinkRoot)}
    /\ pc = "input"
    /\ target_roles = MainRoles
    /\ target_locations = MainLocations
    /\ ri = 1 /\ li = 1 /\ pi = 1
    /\ dispatched = <<>>
    /\ responses = <<>>
    /\ budget = 0
    /\ run = 1
    /\ unique_links = <<>>
    /\ new_links = <<>>
    /\ ledger = NoFile
    /\ events = <<>>
    /\ history = NoFile
    /\ loaded = {}

NextDedupe == DedupeOnce \/ DedupeTwice

SpecDedupe == InitDedupe /\ [][NextDedupe]_vars

---------------------------------------------------------------------------
(* What the claims speak of.                                               *)

\* The link column of the rows under the header.
LedgerLinks(file) ==
    [i \in 1..(Len(file.rows) - 1) |-> file.rows[i + 1][1]]

LinkSet(file) == { LedgerLinks(file)[i] : i \in DOMAIN LedgerLinks(file) }

IsPrefix(a, b) == Len(a) <= Len(b) /\ SubSeq(b, 1, Len(a)) = a

\* The rows the last save appended.
Appended == SubSeq(ledger.rows, Len(ledger.rows) - Len(new_links) + 1,
                   Len(ledger.rows))

\* A query fails when the backend call fails or an entry of its results
\* cannot be processed.
Failing(resp) ==
    \/ resp.kind # "ok"
    \/ \E k \in DOMAIN resp.body.organic_results :
          ~resp.body.organic_results[k].object

\* The entries of the answers of the queries that did not fail, that are
\* postings of the platform.
ValidEntries ==
    { <<q, k>> \in (DOMAIN responses) \X (1..(MaxResults + 1)) :
        /\ ~Failing(responses[q])
        /\ k \in DOMAIN responses[q].body.organic_results
        /\ responses[q].body.organic_results[k] \in ValidRaw }

\* The number of queries of a whole run.
PlanLength ==
    Len(target_roles) * Len(target_locations) + Len(search_patterns)

\* The q-th query of the plan: roles outer, locations inner, then the patterns.
PlannedQuery(q) ==
    LET n == Len(target_roles) * Len(target_locations)
        m == Len(target_locations)
    IN  IF q <= n
        THEN CrossQueryText(target_roles[((q - 1) \div m) + 1],
                            target_locations[((q - 1) % m) + 1])
        ELSE search_patterns[q - n]

\* The location a record of the q-th query carries.
PlannedLocation(q) ==
    LET n == Len(target_roles) * Len(target_locations)
        m == Len(target_locations)
    IN  IF q <= n THEN target_locations[((q - 1) % m) + 1] ELSE "US/Remote"

\* The indices of xs that a deduplication against S keeps: the first
\* occurrence of each link that is not in S.
KeptIndices(xs, S) ==
    { i \in 1..Len(xs) :
        /\ Some(xs[i].link) \notin S
        /\ \A j \in 1..(i - 1) : xs[j].link # xs[i].link }

\* The n-th of them, in the order of xs.
NthKept(xs, S, n) ==
    CHOOSE i \in KeptIndices(xs, S) :
        Cardinality({ j \in KeptIndices(xs, S) : j <= i }) = n

FirstOccurrences(xs, S) ==
    [n \in 1..Cardinality(KeptIndices(xs, S)) |-> xs[NthKept(xs, S, n)]]

Count(seq, x) == Cardinality({ i \in DOMAIN seq : seq[i] = x })

---------------------------------------------------------------------------
(* The claims.                                                             *)

\* C1: run after run from a missing ledger, no link occurs in two rows of
\* the ledger, each save only extends the ledger (its set of links never
\* shrinks), and a run whose discovered links are all in the ledger already
\* appends no row.
C1_LedgerUniqueAndGrowing ==
    /\ \A i, j \in DOMAIN LedgerLinks(ledger) :
          i # j => LedgerLinks(ledger)[i] # LedgerLinks(ledger)[j]
    /\ IsPrefix(history.rows, ledger.rows)
    /\ LinkSet(history) \subseteq LinkSet(ledger)
    /\ (pc = "idle" /\ \A i \in DOMAIN job_links :
                          job_links[i].link \in LinkSet(history))
          => ledger = history

\* C1 witness: the second run found again a link the first run recorded,
\* and appended nothing.
C1_Witness ==
    /\ pc = "idle" /\ run = 2
    /\ job_links # <<>>
    /\ \A i \in DOMAIN job_links : job_links[i].link \in LinkSet(history)
    /\ Len(ledger.rows) = 2
    /\ ledger = history

\* C2: whatever the ledger file was before (absent, with a header row, or
\* without one), once save_links_to_csv has written the rows of a batch,
\* load_existing_links returns the link of every record written.
C2_RoundTrip ==
    (/\ pc = "loaded"
     /\ new_links # <<>>
     /\ \A i \in DOMAIN history.rows : history.rows[i] # BadRow)
    => \A i \in DOMAIN new_links : Some(new_links[i].link) \in loaded

\* C3: the records written by remove_duplicates and the filter of
\* save_links_to_csv are, in order, the first occurrence in the candidate
\* list of each link that is not among the existing links, with the fields of
\* that occurrence, and none of them has a link among the existing links.
\* Their rows are what the file gains: after the rows it had, or, when its
\* last line had no terminator, from the end of that line on.
C3_FirstOccurrencesWritten ==
    pc \in {"idle", "loaded"} =>
       LET kept == FirstOccurrences(job_links, existing_links)
           had == IF history.exists THEN history.rows ELSE <<HeaderRow>>
       IN  /\ new_links = kept
           /\ \A i \in DOMAIN new_links :
                 Some(new_links[i].link) \notin existing_links
           /\ kept = <<>> => ledger = history
           /\ (kept # <<>> /\ (history.terminated \/ history.rows = <<>>)) =>
                 ledger.rows = had \o RowsOf(kept)
           /\ (kept # <<>> /\ ~history.terminated) =>
                 /\ Len(ledger.rows) = Len(had) + Len(kept) - 1
                 /\ SubSeq(ledger.rows, 1, Len(had) - 1)
                       = SubSeq(had, 1, Len(had) - 1)
                 /\ SubSeq(ledger.rows, Len(had) + 1, Len(ledger.rows))
                       = Tail(RowsOf(kept))
                 /\ LET line == ledger.rows[Len(had)]
                        old == had[Len(had)]
                    IN  old # BadRow =>
                          /\ Len(line) = Len(old) + Len(HeaderRow) - 1
                          /\ line[Len(old)] = old[Len(old)] \o kept[1].link
                          /\ SubSeq(line, Len(old) + 1, Len(line))
                                = Tail(RowOf(kept[1]))

\* C3 witness: a link found twice with different fields, another link that
\* the ledger holds already; the first occurrence alone was written.
C3_Witness ==
    /\ pc = "idle"
    /\ job_links = <<AcmeJob, CapsJob, AcmeJobAgain>>
    /\ existing_links = {Some(LinkCaps)}
    /\ history.terminated
    /\ Appended = <<RowOf(AcmeJob)>>
    /\ Len(ledger.rows) = Len(history.rows) + 1

\* C4: deduplicating the output of a deduplication against the same set of
\* existing links changes nothing.
C4_DedupeIdempotent ==
    pc = "twice" => unique_links = new_links

\* C4 witness: a list with a repeated link and a link in the set, of which
\* two records are kept, deduplicated twice.
C4_Witness ==
    /\ pc = "twice"
    /\ Len(job_links) = 3
    /\ \E i, j \in DOMAIN job_links : i # j /\ job_links[i].link = job_links[j].link
    /\ existing_links = {Some(LinkRoot)}
    /\ Len(unique_links) = 2

\* C5: whichever queries fail, the discovery does not raise, issues every
\* query of the plan, and returns every posting of every query that did not
\* fail.
C5_FailureIsolation ==
    /\ pc # "crashed"
    /\ pc = "returned" =>
          /\ Len(dispatched) = PlanLength
          /\ Cardinality(ValidEntries) <= Len(job_links)
          /\ \A e \in ValidEntries :
                LET result == responses[e[1]].body.organic_results[e[2]]
                IN  \E j \in DOMAIN job_links :
                       /\ job_links[j].link = result.link.val
                       /\ job_links[j].location_searched = PlannedLocation(e[1])
                       /\ job_links[j].title = Get(result.title, "No title")

\* C5 witness: a query failed on the network and a later query returned a
\* posting, which is in the list returned.
C5_Witness ==
    /\ pc = "returned"
    /\ \E a, c \in DOMAIN responses :
          /\ a < c
          /\ responses[a].kind = "network_error"
          /\ <<c, 1>> \in ValidEntries
    /\ Len(job_links) = 1

\* C6: the company of every record is lower-case, stripped, and none of the
\* structural tokens "jobs", "www" and "job-boards".
C6_CompanyNeverStructural ==
    \A j \in DOMAIN job_links :
       /\ job_links[j].company = Lower(job_links[j].company)
       /\ job_links[j].company = Strip(job_links[j].company)
       /\ job_links[j].company \notin {"jobs", "www", "job-boards"}

\* C8: the queries dispatched are the plan, in its order and each once:
\* every (role, location) pair, roles outer and locations inner, then the
\* patterns; a returned discovery has dispatched all of it.
C8_QueryPlan ==
    /\ Len(dispatched) <= PlanLength
    /\ Len(responses) = Len(dispatched)
    /\ \A q \in DOMAIN dispatched : dispatched[q] = PlannedQuery(q)
    /\ pc = "returned" => Len(dispatched) = PlanLength

\* C8 witness: two roles and two locations, a failed query among the eight.
C8_Witness ==
    /\ pc = "returned"
    /\ Len(target_roles) = 2 /\ Len(target_locations) = 2
    /\ Len(dispatched) = 8
    /\ \E q \in DOMAIN responses : q < 4 /\ responses[q].kind = "http_error"

\* C9: a result whose link lacks the host marker or the posting path marker,
\* or that has no link, adds no record: every candidate and every row of the
\* ledger has a link with both markers, and the candidates are no more than
\* the entries with such a link.
C9_MarkerFilter ==
    /\ \A j \in DOMAIN job_links :
          /\ Contains(job_links[j].link, "job-boards.greenhouse.io")
          /\ Contains(job_links[j].link, "/jobs/")
          /\ job_links[j].link \notin {LinkNoHost, LinkNoPath, ""}
    /\ \A i \in DOMAIN LedgerLinks(ledger) :
          /\ Contains(LedgerLinks(ledger)[i], "job-boards.greenhouse.io")
          /\ Contains(LedgerLinks(ledger)[i], "/jobs/")
    /\ Len(job_links) <=
          Cardinality({ <<q, k>> \in (DOMAIN responses) \X (1..(MaxResults + 1)) :
              /\ k \in DOMAIN responses[q].body.organic_results
              /\ responses[q].body.organic_results[k] \in ValidRaw })

\* C9 witness: a pattern query answered a posting after a link without the
\* path marker; the posting alone became a record and a row.
C9_Witness ==
    /\ pc = "idle"
    /\ \E q \in DOMAIN responses :
          /\ q > 1
          /\ Len(responses[q].body.organic_results) = 2
          /\ responses[q].body.organic_results[1].link = Some(LinkNoPath)
          /\ responses[q].body.organic_results[2].link = Some(LinkAcme)
    /\ Len(job_links) = 1
    /\ Len(ledger.rows) = 2

\* C10, as claimed: the ledger is read once at the start of the run, before
\* the first query is issued.
C10_ReadBeforeFirstQuery ==
    Count(events, "query") > 0 => events[1] = "read"

\* C10, amended: the ledger is read at most once and appended at most once,
\* both at the end of the run: the read after the last query, the append
\* right after the read; no access lies between queries, and the candidates
\* are filtered by the set read then.
C10_LedgerAccessAtEnd ==
    /\ Count(events, "read") <= 1
    /\ Count(events, "append") <= 1
    /\ \A i \in DOMAIN events :
          /\ events[i] = "read" =>
                /\ i = PlanLength + 1
                /\ \A k \in 1..(i - 1) : events[k] = "query"
          /\ events[i] = "append" => i > 1 /\ events[i - 1] = "read"
    /\ (pc = "idle" /\ run > 0) =>
          /\ Count(events, "query") = PlanLength
          /\ Count(events, "read") = (IF unique_links = <<>> THEN 0 ELSE 1)
          /\ Count(events, "append") = (IF ledger = history THEN 0 ELSE 1)
          /\ \A i \in DOMAIN unique_links :
                (\E k \in DOMAIN new_links : new_links[k] = unique_links[i])
                   <=> unique_links[i].link \notin LinkSet(history)

\* C10 witness: a second run that, after its twenty queries, read the ledger
\* and appended to it.
C10_Witness ==
    /\ pc = "idle" /\ run = 2
    /\ PlanLength = 20
    /\ Len(events) = PlanLength + 2
    /\ \A i \in 1..PlanLength : events[i] = "query"
    /\ events[PlanLength + 1] = "read" /\ events[PlanLength + 2] = "append"
    /\ Len(history.rows) = 2
    /\ Len(ledger.rows) = 3

\* C7: load_existing_links returns the links of all the rows it can parse,
\* those after a row it cannot parse as well as those before.
C7_LoadSkipsOnlyBadRows ==
    (/\ pc = "loaded"
     /\ ledger.exists /\ ledger.rows # <<>> /\ ledger.rows[1] = HeaderRow)
    => loaded = { Some(ledger.rows[i][1]) :
                    i \in { k \in 2..Len(ledger.rows) :
                              ledger.rows[k] \notin {BadRow, <<>>} } }

=============================================================================
